---- MODULE Spec2Model ----
(***************************************************************************)
(* Command execution pipeline of mini_cqrs_es: Cqrs::execute with its two  *)
(* aggregate managers, and the older SimpleDispatcher / SnapshotDispatcher.*)
(* The aggregate, the command handler and the consumers are user code: the *)
(* handler's result and the stores' failures are nondeterministic, and the *)
(* aggregate is the free one (its state is the list of payloads applied).  *)
(***************************************************************************)
EXTENDS Integers, Sequences, FiniteSets, TLC

\* ------------------------------------------------------------------ bounds
MaxLog == 2        \* events the model lets one aggregate id accumulate
MaxNew == 2        \* events one handler call may return
MaxCmds == 1       \* follow-up commands one consumers.process call may return
ChanCap == 1       \* capacity of the bounded mpsc command channel
MaxCounterLog == 3 \* events the Counter example lets its aggregate accumulate
MaxGameLog == 7    \* events the Game example lets its aggregate accumulate
MaxReplay == 3     \* events of a log handed to apply_events on its own

\* --------------------------------------------------------------- constants
NumConsumers == 2  \* registered consumers
DefaultVersion == 1 \* version.unwrap_or(1)
CounterEventId == 2 \* the id "counter" every CounterEvent names

Ids == {1, 2}                   \* aggregate identities (Uuid / String)
NoId == 0                       \* identity of A::default()
Payloads == {"a", "b"}          \* domain events
HandlerVersions == {1, 3}       \* versions a handler may put on an event
Consumers == 1..NumConsumers
Tasks == {1, 2}                 \* callers of execute
SeqTasks == {1}                 \* the single caller of the sequential specification
SeqIds == {1}                   \* the aggregate the sequential caller works on
Engines == {"CqrsSimple", "CqrsSnapshot", "SimpleDispatcher", "SnapshotDispatcher"}
CqrsEngines == {"CqrsSimple", "CqrsSnapshot"}

VARIABLES
  engine,               \* which orchestrator and manager were constructed
  not_found_is_error,   \* whether load_events fails for an unknown id
  events,               \* EventStore: HashMap<id, Vec<Event>>
  snapshots,            \* SnapshotStore: HashMap<id, AggregateSnapshot>
  delivered,            \* per consumer, the events the running execute handed it
  channel,              \* mpsc command channel contents
  rx_closed,            \* the channel's receiver was dropped
  sent,                 \* the commands the running execute put on the channel
  games,                \* the consumers' read model: HashMap<id, GameModel>
  pc,                   \* per task, position inside execute
  target,               \* per task, aggregate_id argument
  command,              \* per task, command argument, once the handler saw it
  aggregate,            \* per task, local aggregate
  current_version,      \* per task
  new_events,           \* per task, the handler's result
  versioned_events,     \* per task, events to save
  commands_to_dispatch, \* per task, collected follow-up commands
  idx,                  \* per task, index of the event being processed
  cidx,                 \* per task, index of the consumer (dispatchers)
  err,                  \* per task, error returned
  pre,                  \* per task, the shared state when execute was called
  local_model           \* per task, the GameModel a consumer holds between query and update

shared == <<events, snapshots, delivered, channel, rx_closed, sent, games>>
locals == <<pc, target, command, aggregate, current_version, new_events, versioned_events,
            commands_to_dispatch, idx, cidx, err, pre, local_model>>
config == <<engine, not_found_is_error>>
vars == <<config, shared, locals>>

\* ------------------------------------------------------------ serde_json
to_value(x) == <<"json", x>>
from_value(j) == j[2]

\* ------------------------------------------------------------------ Event
EventNew(payload, aggregate_id, version) ==
  [aggregate_id |-> aggregate_id, version |-> version, payload |-> to_value(payload)]

get_payload(e) == from_value(e.payload)

\* --------------------------------------------------------------- Aggregate
Default == [id |-> NoId, applied |-> <<>>]

\* An aggregate whose set_aggregate_id keeps the identity it was built with.
set_aggregate_id_ignored(a, id) == a

set_aggregate_id(a, id) == [a EXCEPT !.id = id]

apply(a, p) == [a EXCEPT !.applied = Append(@, p)]

RECURSIVE apply_events(_, _)
apply_events(a, evs) ==
  IF evs = <<>> THEN a
  ELSE apply_events(apply(a, get_payload(Head(evs))), Tail(evs))

\* ------------------------------------------------------------- EventStore
Ok(v) == [ok |-> TRUE, value |-> v]
Err == [ok |-> FALSE, value |-> <<>>]

\* InMemoryEventStore::load_events: an id the map does not hold is an error.
InMemoryLoadEvents(id) == IF id \in DOMAIN events THEN Ok(events[id]) ELSE Err

\* A store that reports an id it does not hold as an empty history.
EmptyHistoryLoadEvents(id) == IF id \in DOMAIN events THEN Ok(events[id]) ELSE Ok(<<>>)

\* A store that answers every load with the log of its first aggregate.
load_events_unkeyed(id) ==
  IF DOMAIN events = {}
  THEN Ok(<<>>)
  ELSE Ok(events[CHOOSE i \in DOMAIN events : \A j \in DOMAIN events : i <= j])

\* EventStore::load_events of the store the application was built with.
load_events(id) ==
  IF not_found_is_error THEN InMemoryLoadEvents(id) ELSE EmptyHistoryLoadEvents(id)

\* A store that ignores an append whose first version is not past its log.
save_events_unless_stale(id, evs) ==
  IF /\ id \in DOMAIN events
     /\ evs # <<>>
     /\ events[id] # <<>>
     /\ evs[1].version <= events[id][Len(events[id])].version
  THEN events
  ELSE IF id \in DOMAIN events
       THEN [events EXCEPT ![id] = @ \o evs]
       ELSE (id :> evs) @@ events

\* A store that keeps the log of one aggregate only.
save_events_single_log(id, evs) ==
  id :> ((IF id \in DOMAIN events THEN events[id] ELSE <<>>) \o evs)

\* A store that puts the new events in front of the aggregate's log.
save_events_prepending(id, evs) ==
  IF id \in DOMAIN events
  THEN [events EXCEPT ![id] = evs \o @]
  ELSE (id :> evs) @@ events

\* A store that replaces the aggregate's log instead of extending it.
save_events_replacing(id, evs) == (id :> evs) @@ events

save_events(id, evs) ==
  IF id \in DOMAIN events
  THEN [events EXCEPT ![id] = @ \o evs]
  ELSE (id :> evs) @@ events

StoredLog(id) == IF id \in DOMAIN events THEN events[id] ELSE <<>>

\* ---------------------------------------------------------- SnapshotStore
\* Option<u64>
None == <<>>
Some(v) == <<v>>
unwrap_or(opt, d) == IF opt = None THEN d ELSE opt[1]

\* A constructor that stamps every snapshot with the default version.
AggregateSnapshotNewUnversioned(a, version) ==
  [aggregate_id |-> a.id, payload |-> to_value(a), version |-> DefaultVersion]

\* AggregateSnapshot::new(aggregate, version: Option<u64>)
AggregateSnapshotNew(a, version) ==
  [aggregate_id |-> a.id, payload |-> to_value(a),
   version |-> unwrap_or(version, DefaultVersion)]

snapshot_get_payload(s) == from_value(s.payload)

\* A store that keeps nothing but the snapshot it was handed last.
save_snapshot_clearing(s) ==
  LET stored == AggregateSnapshotNew(snapshot_get_payload(s), None)
  IN  (stored.aggregate_id :> stored)

save_snapshot(s) ==
  LET stored == AggregateSnapshotNew(snapshot_get_payload(s), None)
  IN  IF stored.aggregate_id \in DOMAIN snapshots
      THEN [snapshots EXCEPT ![stored.aggregate_id] = stored]
      ELSE (stored.aggregate_id :> stored) @@ snapshots

load_snapshot(id) ==
  IF id \in DOMAIN snapshots
  THEN Ok(AggregateSnapshotNew(snapshot_get_payload(snapshots[id]), None))
  ELSE Err

\* ------------------------------------------------------- AggregateManager
\* A load that forgets to give the default aggregate its identity.
SimpleAggregateManagerLoadNoId(id) ==
  LET r == load_events(id)
  IN  IF r.ok THEN Ok(apply_events(Default, r.value)) ELSE Err

SimpleAggregateManagerLoad(id) ==
  LET r == load_events(id)
  IN  IF r.ok THEN Ok(apply_events(set_aggregate_id(Default, id), r.value)) ELSE Err

\* A load that returns the snapshot store's error to its caller.
SnapshotAggregateManagerLoadStrict(id) ==
  LET r == load_snapshot(id)
  IN  IF r.ok THEN Ok(snapshot_get_payload(r.value)) ELSE Err

SnapshotAggregateManagerLoad(id) ==
  LET r == load_snapshot(id)
  IN  IF r.ok THEN Ok(snapshot_get_payload(r.value))
      ELSE Ok(set_aggregate_id(Default, id))

SnapshotAggregateManagerStore(a) ==
  save_snapshot(AggregateSnapshotNew(a, None))

\* ------------------------------------------------------------------ Init
NoCommand == [op |-> "None"]

NoPre == [events |-> <<>>, snapshots |-> <<>>]
NoModel == <<>>

Init ==
  /\ engine \in Engines
  /\ not_found_is_error \in BOOLEAN
  /\ engine \notin CqrsEngines => not_found_is_error
  /\ events = <<>>
  /\ snapshots = <<>>
  /\ delivered = [c \in Consumers |-> <<>>]
  /\ channel = <<>>
  /\ rx_closed = FALSE
  /\ sent = <<>>
  /\ games = <<>>
  /\ pc = [t \in Tasks |-> "Idle"]
  /\ target = [t \in Tasks |-> NoId]
  /\ command = [t \in Tasks |-> NoCommand]
  /\ aggregate = [t \in Tasks |-> Default]
  /\ current_version = [t \in Tasks |-> 0]
  /\ new_events = [t \in Tasks |-> <<>>]
  /\ versioned_events = [t \in Tasks |-> <<>>]
  /\ commands_to_dispatch = [t \in Tasks |-> <<>>]
  /\ idx = [t \in Tasks |-> 0]
  /\ cidx = [t \in Tasks |-> 0]
  /\ err = [t \in Tasks |-> "None"]
  /\ pre = [t \in Tasks |-> NoPre]
  /\ local_model = [t \in Tasks |-> NoModel]

\* --------------------------------------------------------- user handlers
\* What a command handler may return: Err, or up to MaxNew events built with
\* Event::new(payload, version), whose aggregate_id comes from the payload.
HandlerEvents ==
  {EventNew(p, a, v) : p \in Payloads, a \in Ids, v \in HandlerVersions}

HandlerResults == UNION {[1..n -> HandlerEvents] : n \in 0..MaxNew}

\* The commands a consumers.process call returns for an event: n distinct values.
ConsumerCommands(e, n) ==
  [j \in 1..n |-> [aggregate_id |-> e.aggregate_id, version |-> e.version, n |-> j]]

\* --------------------------------------------------- order of the steps
\* The statements of each execute, in program order.
\* Orders in which execute would save last, or store the snapshot first.
CqrsPipelineSaveLast ==
  <<"Loading", "CurrentVersion", "Handling", "Versioning", "Applying",
    "Notifying", "Dispatching", "Persisting", "Snapshotting", "Done">>

CqrsPipelineStoreFirst ==
  <<"Loading", "CurrentVersion", "Handling", "Versioning", "Persisting",
    "Applying", "Snapshotting", "Notifying", "Dispatching", "Done">>

\* An order in which execute would send before the consumers have run.
CqrsPipelineDispatchFirst ==
  <<"Loading", "CurrentVersion", "Handling", "Versioning", "Persisting",
    "Applying", "Dispatching", "Notifying", "Snapshotting", "Done">>

\* An order in which execute would store the snapshot before it sends.
CqrsPipelineStoreBeforeDispatch ==
  <<"Loading", "CurrentVersion", "Handling", "Versioning", "Persisting",
    "Applying", "Notifying", "Snapshotting", "Dispatching", "Done">>

CqrsPipeline ==
  <<"Loading", "CurrentVersion", "Handling", "Versioning", "Persisting",
    "Applying", "Notifying", "Dispatching", "Snapshotting", "Done">>

\* An order in which the dispatcher would return the aggregate as it loaded it.
SimpleDispatcherPipelineNoApply ==
  <<"Loading", "Identifying", "Handling", "Persisting", "Notifying", "Done">>

\* An order in which the dispatcher would touch the store before handling.
SimpleDispatcherPipelineSaveFirst ==
  <<"Loading", "Identifying", "Persisting", "Handling", "Applying", "Notifying",
    "Done">>

SimpleDispatcherPipeline ==
  <<"Loading", "Identifying", "Handling", "Persisting", "Applying", "Notifying",
    "Done">>

SnapshotDispatcherPipeline ==
  <<"Loading", "Identifying", "Handling", "Persisting", "Applying",
    "Snapshotting", "Notifying", "Done">>

Pipeline ==
  IF engine \in CqrsEngines THEN CqrsPipeline
  ELSE IF engine = "SimpleDispatcher" THEN SimpleDispatcherPipeline
  ELSE SnapshotDispatcherPipeline

StepAfter(p) ==
  Pipeline[(CHOOSE i \in 1..Len(Pipeline) : Pipeline[i] = p) + 1]

\* ------------------------------------------------------------ task frame
Goto(t, label) == pc' = [pc EXCEPT ![t] = label]

Fail(t, kind) ==
  /\ pc' = [pc EXCEPT ![t] = "Failed"]
  /\ err' = [err EXCEPT ![t] = kind]

SharedState == [events |-> events, snapshots |-> snapshots]

\* A caller invokes execute(aggregate_id, command).
Enter(t, id) ==
  /\ pc[t] = "Idle"
  /\ pc' = [pc EXCEPT ![t] = Pipeline[1]]
  /\ target' = [target EXCEPT ![t] = id]
  /\ idx' = [idx EXCEPT ![t] = 1]
  /\ cidx' = [cidx EXCEPT ![t] = 1]
  /\ pre' = [pre EXCEPT ![t] = SharedState]
  /\ UNCHANGED <<config, local_model, shared, command, aggregate, current_version, new_events,
                 versioned_events, commands_to_dispatch, err>>

\* The call of a single caller: no other call is running.
Start(t, id) ==
  /\ \A u \in Tasks : pc[u] = "Idle"
  /\ Enter(t, id)

\* execute returned; the caller's frame is dropped.
Return(t) ==
  /\ pc[t] \in {"Done", "Failed"}
  /\ pc' = [pc EXCEPT ![t] = "Idle"]
  /\ target' = [target EXCEPT ![t] = NoId]
  /\ command' = [command EXCEPT ![t] = NoCommand]
  /\ aggregate' = [aggregate EXCEPT ![t] = Default]
  /\ current_version' = [current_version EXCEPT ![t] = 0]
  /\ new_events' = [new_events EXCEPT ![t] = <<>>]
  /\ versioned_events' = [versioned_events EXCEPT ![t] = <<>>]
  /\ commands_to_dispatch' = [commands_to_dispatch EXCEPT ![t] = <<>>]
  /\ idx' = [idx EXCEPT ![t] = 0]
  /\ cidx' = [cidx EXCEPT ![t] = 0]
  /\ err' = [err EXCEPT ![t] = "None"]
  /\ pre' = [pre EXCEPT ![t] = NoPre]
  /\ delivered' = [c \in Consumers |-> <<>>]
  /\ sent' = <<>>
  /\ UNCHANGED <<config, local_model, games, events, snapshots, channel, rx_closed>>

\* ----------------------------------------------------------- Cqrs::execute
\* 1. aggregate_manager.load(aggregate_id).await?
ManagerLoad(id) ==
  IF engine = "CqrsSimple" THEN SimpleAggregateManagerLoad(id)
  ELSE SnapshotAggregateManagerLoad(id)

CqrsLoad(t) ==
  /\ engine \in CqrsEngines
  /\ pc[t] = "Loading"
  /\ LET r == ManagerLoad(target[t])
     IN  IF r.ok
         THEN /\ aggregate' = [aggregate EXCEPT ![t] = r.value]
              /\ Goto(t, StepAfter("Loading"))
              /\ UNCHANGED err
         ELSE /\ Fail(t, "AggregateLoad")
              /\ UNCHANGED aggregate
  /\ UNCHANGED <<config, local_model, shared, target, command, current_version, new_events,
                 versioned_events, commands_to_dispatch, idx, cidx, pre>>

\* event_store.load_events(id).await.map_err(StoreOperation)?.last().map_or(0, version)
LastVersion(evs) == IF evs = <<>> THEN 0 ELSE evs[Len(evs)].version

CqrsCurrentVersion(t) ==
  /\ engine \in CqrsEngines
  /\ pc[t] = "CurrentVersion"
  /\ LET r == load_events(target[t])
     IN  IF r.ok
         THEN /\ current_version' = [current_version EXCEPT ![t] = LastVersion(r.value)]
              /\ Goto(t, StepAfter("CurrentVersion"))
              /\ UNCHANGED err
         ELSE /\ Fail(t, "StoreOperationLoad")
              /\ UNCHANGED current_version
  /\ UNCHANGED <<config, local_model, shared, target, command, aggregate, new_events,
                 versioned_events, commands_to_dispatch, idx, cidx, pre>>

\* 2. command.handle(&aggregate, &context).await?
CqrsHandle(t) ==
  /\ engine \in CqrsEngines
  /\ pc[t] = "Handling"
  /\ \/ /\ Fail(t, "CommandRejected")
        /\ UNCHANGED new_events
     \/ \E evs \in HandlerResults :
          /\ Len(StoredLog(target[t])) + Len(evs) <= MaxLog
          /\ new_events' = [new_events EXCEPT ![t] = evs]
          /\ Goto(t, StepAfter("Handling"))
          /\ UNCHANGED err
  /\ UNCHANGED <<config, local_model, shared, target, command, aggregate, current_version,
                 versioned_events, commands_to_dispatch, idx, cidx, pre>>

\* 3. the versioning loop: the first event of another aggregate aborts it.
\* A loop that never advances the version it hands out.
NextVersionStuck(current, i) == current + 1

NextVersion(current, i) == current + i

\* A loop that validates the first event only.
AssignVersionsFirstOnly(evs, id, current) ==
  IF evs # <<>> /\ evs[1].aggregate_id # id
  THEN Err
  ELSE Ok([i \in 1..Len(evs) |-> [evs[i] EXCEPT !.version = NextVersion(current, i)]])

AssignVersions(evs, id, current) ==
  IF \E i \in 1..Len(evs) : evs[i].aggregate_id # id
  THEN Err
  ELSE Ok([i \in 1..Len(evs) |-> [evs[i] EXCEPT !.version = NextVersion(current, i)]])

\* An execute that runs steps 4 to 8 whatever the handler returned.
SkipsNothing(evs) == FALSE

\* `if !versioned_events.is_empty() { steps 4 to 8 }`
SkipsSteps4To8(evs) == evs = <<>>

CqrsAssignVersions(t) ==
  /\ engine \in CqrsEngines
  /\ pc[t] = "Versioning"
  /\ LET r == AssignVersions(new_events[t], target[t], current_version[t])
     IN  IF r.ok
         THEN /\ versioned_events' = [versioned_events EXCEPT ![t] = r.value]
              /\ Goto(t, IF SkipsSteps4To8(r.value) THEN "Done"
                         ELSE StepAfter("Versioning"))
              /\ UNCHANGED err
         ELSE /\ Fail(t, "CommandValidation")
              /\ UNCHANGED versioned_events
  /\ UNCHANGED <<config, local_model, shared, target, command, aggregate, current_version, new_events,
                 commands_to_dispatch, idx, cidx, pre>>

\* 4. event_store.save_events(id, &versioned_events).await.map_err(StoreOperation)?
CqrsSave(t) ==
  /\ engine \in CqrsEngines
  /\ pc[t] = "Persisting"
  /\ \/ /\ Fail(t, "StoreOperationSave")
        /\ UNCHANGED events
     \/ /\ events' = save_events(target[t], versioned_events[t])
        /\ Goto(t, StepAfter("Persisting"))
        /\ UNCHANGED err
  /\ UNCHANGED <<config, local_model, games, snapshots, delivered, channel, rx_closed, sent, target, command,
                 aggregate, current_version, new_events, versioned_events,
                 commands_to_dispatch, idx, cidx, pre>>

\* 5. aggregate.apply_events(&versioned_events).await
CqrsApply(t) ==
  /\ engine \in CqrsEngines
  /\ pc[t] = "Applying"
  /\ aggregate' = [aggregate EXCEPT ![t] = apply_events(@, versioned_events[t])]
  /\ Goto(t, StepAfter("Applying"))
  /\ UNCHANGED <<config, local_model, shared, target, command, current_version, new_events,
                 versioned_events, commands_to_dispatch, idx, cidx, err, pre>>

\* `for event in events`: the i-th event handed to the consumers.
\* Iterating the events from the newest to the oldest.
EventAtReversed(evs, i) == evs[Len(evs) + 1 - i]

EventAt(evs, i) == evs[i]

\* 6. for event in versioned_events: consumers.process(event).await?
\* The group hands the event to its members in order; a member's error ends
\* the call, so the members after it never see the event.
GroupDeliver(e, upto) ==
  [c \in Consumers |-> IF c <= upto THEN Append(delivered[c], e) ELSE delivered[c]]

CqrsProcess(t) ==
  /\ engine \in CqrsEngines
  /\ pc[t] = "Notifying"
  /\ LET e == EventAt(versioned_events[t], idx[t])
         last == idx[t] = Len(versioned_events[t])
     IN  \/ \E n \in 0..MaxCmds :
              /\ delivered' = GroupDeliver(e, NumConsumers)
              /\ commands_to_dispatch' =
                   [commands_to_dispatch EXCEPT ![t] = @ \o ConsumerCommands(e, n)]
              /\ idx' = [idx EXCEPT ![t] = @ + 1]
              /\ Goto(t, IF last THEN StepAfter("Notifying") ELSE "Notifying")
              /\ UNCHANGED err
         \/ \E c \in Consumers :
              /\ delivered' = GroupDeliver(e, c)
              /\ Fail(t, "Consumer")
              /\ UNCHANGED <<commands_to_dispatch, idx>>
  /\ UNCHANGED <<config, local_model, games, events, snapshots, channel, rx_closed, sent, target, command,
                 aggregate, current_version, new_events, versioned_events, cidx, pre>>

\* 7. for cmd_msg in commands_to_dispatch: command_sender.send(cmd_msg).await
\* send waits while the channel is full and fails once the receiver is gone.
CqrsDispatch(t) ==
  /\ engine \in CqrsEngines
  /\ pc[t] = "Dispatching"
  /\ \/ /\ commands_to_dispatch[t] = <<>>
        /\ Goto(t, StepAfter("Dispatching"))
        /\ UNCHANGED <<channel, sent, commands_to_dispatch, err>>
     \/ /\ commands_to_dispatch[t] # <<>>
        /\ rx_closed
        /\ Fail(t, "CommandDispatch")
        /\ UNCHANGED <<channel, sent, commands_to_dispatch>>
     \/ /\ commands_to_dispatch[t] # <<>>
        /\ ~rx_closed
        /\ Len(channel) < ChanCap
        /\ channel' = Append(channel, Head(commands_to_dispatch[t]))
        /\ sent' = Append(sent, Head(commands_to_dispatch[t]))
        /\ commands_to_dispatch' = [commands_to_dispatch EXCEPT ![t] = Tail(@)]
        /\ UNCHANGED <<pc, err>>
  /\ UNCHANGED <<config, local_model, games, events, snapshots, delivered, rx_closed, target, command, aggregate,
                 current_version, new_events, versioned_events, idx, cidx, pre>>

\* 8. aggregate_manager.store(&aggregate).await?
CqrsStore(t) ==
  /\ engine \in CqrsEngines
  /\ pc[t] = "Snapshotting"
  /\ \/ /\ engine = "CqrsSimple"
        /\ Goto(t, StepAfter("Snapshotting"))
        /\ UNCHANGED <<snapshots, err>>
     \/ /\ engine = "CqrsSnapshot"
        /\ snapshots' = SnapshotAggregateManagerStore(aggregate[t])
        /\ Goto(t, StepAfter("Snapshotting"))
        /\ UNCHANGED err
     \/ /\ engine = "CqrsSnapshot"
        /\ Fail(t, "Snapshot")
        /\ UNCHANGED snapshots
  /\ UNCHANGED <<config, local_model, games, events, delivered, channel, rx_closed, sent, target, command,
                 aggregate, current_version, new_events, versioned_events,
                 commands_to_dispatch, idx, cidx, pre>>

\* The application's loop takes a command off the channel.
Receive ==
  /\ engine \in CqrsEngines
  /\ ~rx_closed
  /\ channel # <<>>
  /\ channel' = Tail(channel)
  /\ UNCHANGED <<config, games, events, snapshots, delivered, rx_closed, sent, locals>>

\* The application drops the receiver.
CloseReceiver ==
  /\ engine \in CqrsEngines
  /\ ~rx_closed
  /\ rx_closed' = TRUE
  /\ UNCHANGED <<config, games, events, snapshots, delivered, channel, sent, locals>>

\* ------------------------------------- SimpleDispatcher, SnapshotDispatcher
\* load_aggregate of SimpleDispatcher: the stored events applied to a default.
SimpleDispatcherLoadAggregate(id) ==
  LET r == load_events(id)
  IN  IF r.ok THEN apply_events(Default, r.value) ELSE Default

\* load_aggregate of SnapshotDispatcher: the snapshot's payload, or a default.
SnapshotDispatcherLoadAggregate(id) ==
  LET r == load_snapshot(id)
  IN  IF r.ok THEN snapshot_get_payload(r.value) ELSE Default

DispatcherLoad(t) ==
  /\ engine \notin CqrsEngines
  /\ pc[t] = "Loading"
  /\ aggregate' = [aggregate EXCEPT ![t] =
       IF engine = "SimpleDispatcher" THEN SimpleDispatcherLoadAggregate(target[t])
       ELSE SnapshotDispatcherLoadAggregate(target[t])]
  /\ Goto(t, StepAfter("Loading"))
  /\ UNCHANGED <<config, local_model, shared, target, command, current_version, new_events,
                 versioned_events, commands_to_dispatch, idx, cidx, err, pre>>

\* aggregate.set_aggregate_id(aggregate_id.clone())
DispatcherSetAggregateId(t) ==
  /\ engine \notin CqrsEngines
  /\ pc[t] = "Identifying"
  /\ aggregate' = [aggregate EXCEPT ![t] = set_aggregate_id(@, target[t])]
  /\ Goto(t, StepAfter("Identifying"))
  /\ UNCHANGED <<config, local_model, shared, target, command, current_version, new_events,
                 versioned_events, commands_to_dispatch, idx, cidx, err, pre>>

\* let events = aggregate.handle(command).await?
DispatcherHandle(t) ==
  /\ engine \notin CqrsEngines
  /\ pc[t] = "Handling"
  /\ \/ /\ Fail(t, "CommandRejected")
        /\ UNCHANGED new_events
     \/ \E evs \in HandlerResults :
          /\ Len(StoredLog(target[t])) + Len(evs) <= MaxLog
          /\ new_events' = [new_events EXCEPT ![t] = evs]
          /\ Goto(t, StepAfter("Handling"))
          /\ UNCHANGED err
  /\ UNCHANGED <<config, local_model, shared, target, command, aggregate, current_version,
                 versioned_events, commands_to_dispatch, idx, cidx, pre>>

\* self.event_store.save_events(aggregate_id, &events).await?
DispatcherSave(t) ==
  /\ engine \notin CqrsEngines
  /\ pc[t] = "Persisting"
  /\ \/ /\ Fail(t, "StoreOperationSave")
        /\ UNCHANGED events
     \/ /\ events' = save_events(aggregate[t].id, new_events[t])
        /\ Goto(t, StepAfter("Persisting"))
        /\ UNCHANGED err
  /\ UNCHANGED <<config, local_model, games, snapshots, delivered, channel, rx_closed, sent, target, command,
                 aggregate, current_version, new_events, versioned_events,
                 commands_to_dispatch, idx, cidx, pre>>

\* aggregate.apply_events(&events)
DispatcherApply(t) ==
  /\ engine \notin CqrsEngines
  /\ pc[t] = "Applying"
  /\ aggregate' = [aggregate EXCEPT ![t] = apply_events(@, new_events[t])]
  /\ Goto(t, StepAfter("Applying"))
  /\ UNCHANGED <<config, local_model, shared, target, command, current_version, new_events,
                 versioned_events, commands_to_dispatch, idx, cidx, err, pre>>

\* self.snapshot_store.save_snapshot(AggregateSnapshot::new(aggregate.clone(), None)).await?
SnapshotDispatcherSnapshot(t) ==
  /\ engine = "SnapshotDispatcher"
  /\ pc[t] = "Snapshotting"
  /\ \/ /\ Fail(t, "Snapshot")
        /\ UNCHANGED snapshots
     \/ /\ snapshots' = save_snapshot(AggregateSnapshotNew(aggregate[t], None))
        /\ Goto(t, StepAfter("Snapshotting"))
        /\ UNCHANGED err
  /\ UNCHANGED <<config, local_model, games, events, delivered, channel, rx_closed, sent, target, command,
                 aggregate, current_version, new_events, versioned_events,
                 commands_to_dispatch, idx, cidx, pre>>

\* for consumer in event_consumers { for event in events { consumer.process(event).await } }
\* process returns (): it either returns or panics, and a panic unwinds execute.
DispatcherProcess(t) ==
  /\ engine \notin CqrsEngines
  /\ pc[t] = "Notifying"
  /\ \/ /\ new_events[t] = <<>>
        /\ Goto(t, StepAfter("Notifying"))
        /\ UNCHANGED <<delivered, idx, cidx, err>>
     \/ /\ new_events[t] # <<>>
        /\ delivered' = [delivered EXCEPT ![cidx[t]] =
                           Append(@, EventAt(new_events[t], idx[t]))]
        /\ Fail(t, "ConsumerPanic")
        /\ UNCHANGED <<idx, cidx>>
     \/ /\ new_events[t] # <<>>
        /\ LET c == cidx[t]
               lastEvent == idx[t] = Len(new_events[t])
               lastConsumer == c = NumConsumers
           IN  /\ delivered' =
                    [delivered EXCEPT ![c] = Append(@, EventAt(new_events[t], idx[t]))]
               /\ idx' = [idx EXCEPT ![t] = IF lastEvent THEN 1 ELSE @ + 1]
               /\ cidx' = [cidx EXCEPT ![t] = IF lastEvent THEN @ + 1 ELSE @]
               /\ Goto(t, IF lastEvent /\ lastConsumer
                          THEN StepAfter("Notifying") ELSE "Notifying")
               /\ UNCHANGED err
  /\ UNCHANGED <<config, local_model, games, events, snapshots, channel, rx_closed, sent, target, command,
                 aggregate, current_version, new_events, versioned_events,
                 commands_to_dispatch, pre>>

\* ------------------------------------------------------------------ Next
Next ==
  \/ \E t \in SeqTasks, id \in SeqIds : Start(t, id)
  \/ \E t \in SeqTasks : CqrsLoad(t)
  \/ \E t \in SeqTasks : CqrsCurrentVersion(t)
  \/ \E t \in SeqTasks : CqrsHandle(t)
  \/ \E t \in SeqTasks : CqrsAssignVersions(t)
  \/ \E t \in SeqTasks : CqrsSave(t)
  \/ \E t \in SeqTasks : CqrsApply(t)
  \/ \E t \in SeqTasks : CqrsProcess(t)
  \/ \E t \in SeqTasks : CqrsDispatch(t)
  \/ \E t \in SeqTasks : CqrsStore(t)
  \/ \E t \in SeqTasks : DispatcherLoad(t)
  \/ \E t \in SeqTasks : DispatcherSetAggregateId(t)
  \/ \E t \in SeqTasks : DispatcherHandle(t)
  \/ \E t \in SeqTasks : DispatcherSave(t)
  \/ \E t \in SeqTasks : DispatcherApply(t)
  \/ \E t \in SeqTasks : SnapshotDispatcherSnapshot(t)
  \/ \E t \in SeqTasks : DispatcherProcess(t)
  \/ \E t \in SeqTasks : Return(t)
  \/ Receive
  \/ CloseReceiver

Spec == Init /\ [][Next]_vars

\* ------------------------------------------------ two callers, one store
\* Two clones of one Cqrs, sharing the event store, run execute concurrently;
\* every await is a point where the other call may run.
InitRace ==
  /\ Init
  /\ engine = "CqrsSimple"
  /\ ~not_found_is_error

\* The commands of the two callers: each handler returns at most one event,
\* of the target aggregate.
RaceResults ==
  {evs \in HandlerResults :
     /\ Len(evs) <= 1
     /\ \A i \in 1..Len(evs) : evs[i].aggregate_id \in SeqIds /\ evs[i].version = 1}

RaceHandle(t) ==
  /\ CqrsHandle(t)
  /\ new_events'[t] \in RaceResults

\* Their consumers return Ok with no follow-up command.
RaceProcess(t) ==
  /\ CqrsProcess(t)
  /\ pc'[t] # "Failed"
  /\ commands_to_dispatch'[t] = <<>>

NextRace ==
  \/ \E t \in Tasks, id \in SeqIds : Enter(t, id)
  \/ \E t \in Tasks : CqrsLoad(t)
  \/ \E t \in Tasks : CqrsCurrentVersion(t)
  \/ \E t \in Tasks : RaceHandle(t)
  \/ \E t \in Tasks : CqrsAssignVersions(t)
  \/ \E t \in Tasks : CqrsSave(t)
  \/ \E t \in Tasks : CqrsApply(t)
  \/ \E t \in Tasks : RaceProcess(t)
  \/ \E t \in Tasks : CqrsDispatch(t)
  \/ \E t \in Tasks : CqrsStore(t)
  \/ \E t \in Tasks : Return(t)

SpecRace == InitRace /\ [][NextRace]_vars

\* ------------------------------------------- two callers, two aggregates
\* Two clones of one Cqrs, sharing the event store, run execute concurrently,
\* each caller on an aggregate of its own: caller t works on aggregate t.
ApartResults ==
  {evs \in HandlerResults :
     \A i \in 1..Len(evs) : get_payload(evs[i]) = "a" /\ evs[i].version = DefaultVersion}

ApartHandle(t) ==
  /\ CqrsHandle(t)
  /\ new_events'[t] \in ApartResults

NextApart ==
  \/ \E t \in Tasks : Enter(t, t)
  \/ \E t \in Tasks : CqrsLoad(t)
  \/ \E t \in Tasks : CqrsCurrentVersion(t)
  \/ \E t \in Tasks : ApartHandle(t)
  \/ \E t \in Tasks : CqrsAssignVersions(t)
  \/ \E t \in Tasks : CqrsSave(t)
  \/ \E t \in Tasks : CqrsApply(t)
  \/ \E t \in Tasks : RaceProcess(t)
  \/ \E t \in Tasks : CqrsDispatch(t)
  \/ \E t \in Tasks : CqrsStore(t)
  \/ \E t \in Tasks : Return(t)

SpecApart == InitRace /\ [][NextApart]_vars

\* ------------------------------------------------- the in-memory example stores
\* InMemoryEventStore::save_events always returns Ok(()).
InMemorySave(t) ==
  /\ DispatcherSave(t)
  /\ pc'[t] # "Failed"

\* ------------------------------------------------------ the Counter example
\* event.get_payload() of every event of a log
PayloadsOfLog(log) == [i \in 1..Len(log) |-> get_payload(log[i])]

\* SimpleDispatcher<CounterState, InMemoryEventStore> with two printing consumers.
CounterAmounts == {3, 10}

CounterCommands ==
  {[op |-> o, amount |-> n] : o \in {"Increment", "Decrement"}, n \in CounterAmounts}

Incremented(n) == [type |-> "Incremented", amount |-> n]
Decremented(n) == [type |-> "Decremented", amount |-> n]

\* A u32 is kept as its residue modulo 2^32 nearest to zero: a value below
\* 2^31 is itself, a value v from 2^31 up is v - 2^32, so u32::MAX is -1.
I32Max == 2147483647

\* u32 `<`
U32Less(a, b) == IF (a < 0) = (b < 0) THEN a < b ELSE b < 0

\* u32 wrapping_add: the sum modulo 2^32, computed without leaving 32 bits.
U32WrappingAdd(a, b) ==
  IF a >= 0 /\ b >= 0 /\ a > I32Max - b
  THEN ((a - I32Max) - 1) + ((b - I32Max) - 1)
  ELSE IF a < 0 /\ b < 0 /\ a < ((0 - I32Max) - 1) - b
  THEN ((a + I32Max) + 1) + ((b + I32Max) + 1)
  ELSE a + b

\* u32 wrapping_sub
U32WrappingSub(a, b) ==
  IF b > 0 /\ a < ((0 - I32Max) - 1) + b
  THEN ((a + I32Max) + 1) - ((b - I32Max) - 1)
  ELSE IF b < 0 /\ a > I32Max + b
  THEN ((a - I32Max) - 1) - ((b + I32Max) + 1)
  ELSE a - b

\* CounterState::apply on the count field, in a build without overflow
\* checks: `+=` and `-=` wrap.
CounterApply(count, p) ==
  IF p.type = "Incremented"
  THEN U32WrappingAdd(count, p.amount)
  ELSE U32WrappingSub(count, p.amount)

\* With overflow checks `+=` and `-=` panic when the result leaves the u32
\* range: the sum carries out of 32 bits, or the amount exceeds the count.
CounterOverflows(count, p) ==
  IF p.type = "Incremented"
  THEN U32Less(U32WrappingAdd(count, p.amount), count)
  ELSE U32Less(count, p.amount)

RECURSIVE CounterFold(_, _)
CounterFold(count, ps) ==
  IF ps = <<>> THEN count ELSE CounterFold(CounterApply(count, Head(ps)), Tail(ps))

\* The count of a CounterState: the default 0 with every applied event folded in.
CounterCount(a) == CounterFold(0, a.applied)

\* Whether replaying ps on a CounterState panics when overflow checks are on.
RECURSIVE CounterPanics(_, _)
CounterPanics(count, ps) ==
  /\ ps # <<>>
  /\ \/ CounterOverflows(count, Head(ps))
     \/ CounterPanics(CounterApply(count, Head(ps)), Tail(ps))

\* CounterEvent::into(): Event::new(self, None), whose aggregate_id is "counter".
CounterEventInto(p) == EventNew(p, CounterEventId, DefaultVersion)

\* CounterState::handle
CounterHandle(a, cmd) ==
  IF cmd.op = "Increment"
  THEN Ok(<<CounterEventInto(Incremented(cmd.amount))>>)
  ELSE IF U32Less(CounterCount(a), cmd.amount)
       THEN Err
       ELSE Ok(<<CounterEventInto(Decremented(cmd.amount))>>)

\* let events = aggregate.handle(command).await?, for a command of cmds
CounterHandleOneOf(t, cmds) ==
  /\ engine = "SimpleDispatcher"
  /\ pc[t] = "Handling"
  /\ \E cmd \in cmds :
       LET r == CounterHandle(aggregate[t], cmd)
       IN  /\ command' = [command EXCEPT ![t] = cmd]
           /\ IF r.ok
              THEN /\ Len(StoredLog(target[t])) + Len(r.value) <= MaxCounterLog
                   /\ new_events' = [new_events EXCEPT ![t] = r.value]
                   /\ Goto(t, StepAfter("Handling"))
                   /\ UNCHANGED err
              ELSE /\ Fail(t, "CommandRejected")
                   /\ UNCHANGED new_events
  /\ UNCHANGED <<config, local_model, shared, target, aggregate, current_version,
                 versioned_events, commands_to_dispatch, idx, cidx, pre>>

CounterDispatcherHandle(t) ==
  /\ CounterHandleOneOf(t, CounterCommands)
  /\ command'[t] \in CounterCommands

\* PrintEventConsumer and AnotherEventConsumer print the event and return.
PrintingProcess(t) ==
  /\ DispatcherProcess(t)
  /\ pc'[t] # "Failed"

InitCounter ==
  /\ Init
  /\ engine = "SimpleDispatcher"

NextCounter ==
  \/ \E t \in SeqTasks, id \in SeqIds : Start(t, id)
  \/ \E t \in SeqTasks : DispatcherLoad(t)
  \/ \E t \in SeqTasks : DispatcherSetAggregateId(t)
  \/ \E t \in SeqTasks : CounterDispatcherHandle(t)
  \/ \E t \in SeqTasks : InMemorySave(t)
  \/ \E t \in SeqTasks : DispatcherApply(t)
  \/ \E t \in SeqTasks : PrintingProcess(t)
  \/ \E t \in SeqTasks : Return(t)

SpecCounter == InitCounter /\ [][NextCounter]_vars

\* ------------------------------------------ the Counter with large amounts
\* Increment and Decrement take any u32: the same dispatcher, driven with
\* amounts near the top of the range.
CounterWideAmounts == {3, I32Max}

CounterWideCommands ==
  {[op |-> o, amount |-> n] : o \in {"Increment", "Decrement"}, n \in CounterWideAmounts}

CounterWideHandle(t) ==
  /\ CounterHandleOneOf(t, CounterWideCommands)
  /\ command'[t] \in CounterWideCommands

\* load_aggregate replays the stored events with CounterState::apply: with
\* overflow checks an apply that leaves the range panics, without them it wraps.
CounterWideLoad(t) ==
  \/ DispatcherLoad(t)
  \/ /\ engine = "SimpleDispatcher"
     /\ pc[t] = "Loading"
     /\ CounterPanics(0, PayloadsOfLog(StoredLog(target[t])))
     /\ Fail(t, "OverflowPanic")
     /\ UNCHANGED <<config, local_model, shared, target, command, aggregate, current_version,
                    new_events, versioned_events, commands_to_dispatch, idx, cidx, pre>>

\* aggregate.apply_events(&events), the same two outcomes.
CounterWideApply(t) ==
  \/ DispatcherApply(t)
  \/ /\ engine = "SimpleDispatcher"
     /\ pc[t] = "Applying"
     /\ CounterPanics(CounterCount(aggregate[t]), PayloadsOfLog(new_events[t]))
     /\ Fail(t, "OverflowPanic")
     /\ UNCHANGED <<config, local_model, shared, target, command, aggregate, current_version,
                    new_events, versioned_events, commands_to_dispatch, idx, cidx, pre>>

NextCounterWide ==
  \/ \E t \in SeqTasks, id \in SeqIds : Start(t, id)
  \/ \E t \in SeqTasks : CounterWideLoad(t)
  \/ \E t \in SeqTasks : DispatcherSetAggregateId(t)
  \/ \E t \in SeqTasks : CounterWideHandle(t)
  \/ \E t \in SeqTasks : InMemorySave(t)
  \/ \E t \in SeqTasks : CounterWideApply(t)
  \/ \E t \in SeqTasks : PrintingProcess(t)
  \/ \E t \in SeqTasks : Return(t)

SpecCounterWide == InitCounter /\ [][NextCounterWide]_vars

\* --------------------------------------------------------- the Game example
GameGoals == {3}

Player(id, points) == [id |-> id, points |-> points]

Players == {"player_1", "player_2"}

Playing == [tag |-> "Playing"]
Winner(p) == [tag |-> "Winner", winner |-> p]

GameCommands ==
  {[op |-> "StartGame", player_1 |-> Player("player_1", 0),
    player_2 |-> Player("player_2", 0), goal |-> g] : g \in GameGoals}
  \cup {[op |-> "AttackPlayer", attacker |-> Player(p, 0)] : p \in Players}

GameStarted(id, p1, p2, goal) ==
  [type |-> "GameStarted", aggregate_id |-> id, player_1 |-> p1, player_2 |-> p2,
   goal |-> goal]
PlayerAttacked(id, attacker) ==
  [type |-> "PlayerAttacked", aggregate_id |-> id, attacker |-> attacker]
GameEndedWithWinner(id, winner) ==
  [type |-> "GameEndedWithWinner", aggregate_id |-> id, winner |-> winner]

\* GameState::default() without its id.
GameDefault ==
  [player_1 |-> Player("player_1", 0), player_2 |-> Player("player_2", 0),
   status |-> Playing, goal |-> 0]

\* GameState::apply
GameApply(g, p) ==
  IF p.type = "GameStarted"
  THEN [g EXCEPT !.status = Playing, !.goal = p.goal,
                 !.player_1 = p.player_1, !.player_2 = p.player_2]
  ELSE IF p.type = "PlayerAttacked"
  THEN IF g.player_1.id = p.attacker.id
       THEN [g EXCEPT !.player_1.points = @ + 1]
       ELSE [g EXCEPT !.player_2.points = @ + 1]
  ELSE [g EXCEPT !.status = Winner(p.winner)]

RECURSIVE GameFold(_, _)
GameFold(g, ps) ==
  IF ps = <<>> THEN g ELSE GameFold(GameApply(g, Head(ps)), Tail(ps))

\* The fields of a GameState: the default with every applied event folded in.
GameStateOf(a) == GameFold(GameDefault, a.applied)

\* GameEvent::into(): Event::new(self, None), whose aggregate_id is the payload's.
GameEventInto(p) == EventNew(p, p.aggregate_id, DefaultVersion)

\* The AttackPlayer arm, shared by GameState::handle and CmdAttackPlayer::handle.
AttackEvents(a, cmd) ==
  LET g == GameStateOf(a)
      was == IF g.player_1.id = cmd.attacker.id THEN g.player_1 ELSE g.player_2
      player == [was EXCEPT !.points = @ + 1]
  IN  <<GameEventInto(PlayerAttacked(a.id, player))>>
      \o (IF player.points >= g.goal
          THEN <<GameEventInto(GameEndedWithWinner(a.id, player))>>
          ELSE <<>>)

StartEvents(a, cmd) ==
  <<GameEventInto(GameStarted(a.id, cmd.player_1, cmd.player_2, cmd.goal))>>

\* GameState::handle
GameHandle(a, cmd) ==
  IF GameStateOf(a).status # Playing
  THEN Err
  ELSE IF cmd.op = "StartGame"
       THEN Ok(StartEvents(a, cmd))
       ELSE Ok(AttackEvents(a, cmd))

\* CmdStartGame::handle
CmdStartGameHandle(a, cmd) ==
  IF GameStateOf(a).status # Playing THEN Err ELSE Ok(StartEvents(a, cmd))

\* CmdAttackPlayer::handle
CmdAttackPlayerHandle(a, cmd) == Ok(AttackEvents(a, cmd))

\* The handler the running engine calls: the dispatchers call the aggregate's
\* handle, Cqrs::execute calls the command's.
GameResult(a, cmd) ==
  IF engine \notin CqrsEngines THEN GameHandle(a, cmd)
  ELSE IF cmd.op = "StartGame" THEN CmdStartGameHandle(a, cmd)
  ELSE CmdAttackPlayerHandle(a, cmd)

GameExecuteHandle(t) ==
  /\ pc[t] = "Handling"
  /\ \E cmd \in GameCommands :
       LET r == GameResult(aggregate[t], cmd)
       IN  /\ command' = [command EXCEPT ![t] = cmd]
           /\ IF r.ok
              THEN /\ Len(StoredLog(target[t])) + Len(r.value) <= MaxGameLog
                   /\ new_events' = [new_events EXCEPT ![t] = r.value]
                   /\ Goto(t, StepAfter("Handling"))
                   /\ UNCHANGED err
              ELSE /\ Fail(t, "CommandRejected")
                   /\ UNCHANGED new_events
  /\ UNCHANGED <<config, local_model, shared, target, aggregate, current_version,
                 versioned_events, commands_to_dispatch, idx, cidx, pre>>

\* InMemoryRepository::update_game
update_game(repo, model) ==
  [k \in DOMAIN repo \cup {model.id} |-> IF k = model.id THEN model ELSE repo[k]]

\* A consumer that credits every attack to player_1.
GameEventConsumerProcessFirstPlayer(repo, e) ==
  LET p == get_payload(e)
  IN  IF p.type = "GameStarted"
      THEN Ok(update_game(repo, [id |-> p.aggregate_id, player_1 |-> p.player_1,
                                 player_2 |-> p.player_2, goal |-> p.goal,
                                 status |-> Playing]))
      ELSE IF p.aggregate_id \notin DOMAIN repo
      THEN Err
      ELSE LET model == repo[p.aggregate_id]
           IN  IF p.type = "PlayerAttacked"
               THEN Ok(update_game(repo, [model EXCEPT !.player_1.points = @ + 1]))
               ELSE Ok(update_game(repo, [model EXCEPT !.status = Winner(p.winner)]))

\* GameEventConsumer::process: Ok with the repository it leaves, or Err when
\* the query's unwrap() finds no model and panics.
GameEventConsumerProcess(repo, e) ==
  LET p == get_payload(e)
  IN  IF p.type = "GameStarted"
      THEN Ok(update_game(repo, [id |-> p.aggregate_id, player_1 |-> p.player_1,
                                 player_2 |-> p.player_2, goal |-> p.goal,
                                 status |-> Playing]))
      ELSE IF p.aggregate_id \notin DOMAIN repo
      THEN Err
      ELSE LET model == repo[p.aggregate_id]
           IN  IF p.type = "PlayerAttacked"
               THEN IF model.player_1.id = p.attacker.id
                    THEN Ok(update_game(repo, [model EXCEPT !.player_1.points = @ + 1]))
                    ELSE Ok(update_game(repo, [model EXCEPT !.player_2.points = @ + 1]))
               ELSE Ok(update_game(repo, [model EXCEPT !.status = Winner(p.winner)]))

\* GameMainConsumer::process: the same projection, skipping an event whose
\* model is missing.
GameMainConsumerProcess(repo, e) ==
  LET r == GameEventConsumerProcess(repo, e)
  IN  IF r.ok THEN r.value ELSE repo

\* The dispatchers' consumer loop with the single GameEventConsumer.
GameDispatcherProcess(t) ==
  /\ engine \notin CqrsEngines
  /\ pc[t] = "Notifying"
  /\ LET e == EventAt(new_events[t], idx[t])
         r == GameEventConsumerProcess(games, e)
         last == idx[t] = Len(new_events[t])
     IN  /\ delivered' = [delivered EXCEPT ![1] = Append(@, e)]
         /\ IF r.ok
            THEN /\ games' = r.value
                 /\ idx' = [idx EXCEPT ![t] = @ + 1]
                 /\ Goto(t, IF last THEN StepAfter("Notifying") ELSE "Notifying")
                 /\ UNCHANGED err
            ELSE /\ Fail(t, "ConsumerPanic")
                 /\ UNCHANGED <<games, idx>>
  /\ UNCHANGED <<config, local_model, events, snapshots, channel, rx_closed, sent, target, command,
                 aggregate, current_version, new_events, versioned_events,
                 commands_to_dispatch, cidx, pre>>

\* Step 6 of execute with the group of GameMainConsumer and PrintEventConsumer.
GameCqrsProcess(t) ==
  /\ engine \in CqrsEngines
  /\ pc[t] = "Notifying"
  /\ LET e == EventAt(versioned_events[t], idx[t])
         last == idx[t] = Len(versioned_events[t])
     IN  /\ delivered' = GroupDeliver(e, NumConsumers)
         /\ games' = GameMainConsumerProcess(games, e)
         /\ idx' = [idx EXCEPT ![t] = @ + 1]
         /\ Goto(t, IF last THEN StepAfter("Notifying") ELSE "Notifying")
  /\ UNCHANGED <<config, local_model, events, snapshots, channel, rx_closed, sent, target, command,
                 aggregate, current_version, new_events, versioned_events,
                 commands_to_dispatch, cidx, err, pre>>

\* InMemorySnapshotStore::save_snapshot always returns Ok.
InMemorySnapshot(t) ==
  /\ SnapshotDispatcherSnapshot(t)
  /\ pc'[t] # "Failed"

\* The in-memory event store of the Cqrs examples saves without failing.
InMemoryCqrsSave(t) ==
  /\ CqrsSave(t)
  /\ pc'[t] # "Failed"

InitGame ==
  /\ Init
  /\ engine \in {"SimpleDispatcher", "SnapshotDispatcher", "CqrsSimple"}
  /\ engine \in CqrsEngines => ~not_found_is_error

NextGame ==
  \/ \E t \in SeqTasks, id \in SeqIds : Start(t, id)
  \/ \E t \in SeqTasks : DispatcherLoad(t)
  \/ \E t \in SeqTasks : DispatcherSetAggregateId(t)
  \/ \E t \in SeqTasks : CqrsLoad(t)
  \/ \E t \in SeqTasks : CqrsCurrentVersion(t)
  \/ \E t \in SeqTasks : GameExecuteHandle(t)
  \/ \E t \in SeqTasks : CqrsAssignVersions(t)
  \/ \E t \in SeqTasks : InMemorySave(t)
  \/ \E t \in SeqTasks : InMemoryCqrsSave(t)
  \/ \E t \in SeqTasks : DispatcherApply(t)
  \/ \E t \in SeqTasks : CqrsApply(t)
  \/ \E t \in SeqTasks : InMemorySnapshot(t)
  \/ \E t \in SeqTasks : GameDispatcherProcess(t)
  \/ \E t \in SeqTasks : GameCqrsProcess(t)
  \/ \E t \in SeqTasks : CqrsDispatch(t)
  \/ \E t \in SeqTasks : CqrsStore(t)
  \/ \E t \in SeqTasks : Return(t)

SpecGame == InitGame /\ [][NextGame]_vars

\* ------------------------------------------------- apply_events on its own
\* Two instances of one aggregate type are built with Default::default(), given
\* the same identity, and replay the log the store holds for it.
CounterPayloads ==
  {Incremented(n) : n \in CounterAmounts} \cup {Decremented(n) : n \in CounterAmounts}

GamePayloads(id) ==
  {GameStarted(id, Player("player_1", 0), Player("player_2", 0), g) : g \in GameGoals}
  \cup {PlayerAttacked(id, Player(p, 1)) : p \in Players}
  \cup {GameEndedWithWinner(id, Player(p, 1)) : p \in Players}

\* The logs of one aggregate type, up to MaxReplay events long.
ReplayLogs(id) ==
  UNION {[1..n -> CounterPayloads] : n \in 0..MaxReplay}
  \cup UNION {[1..n -> GamePayloads(id)] : n \in 0..MaxReplay}

InitReplay ==
  /\ Init
  /\ engine = "CqrsSimple"
  /\ ~not_found_is_error

\* The store's content is the input: any log of one aggregate type.
FillStore ==
  /\ events = <<>>
  /\ \A t \in Tasks : pc[t] = "Idle"
  /\ \E id \in SeqIds : \E ps \in ReplayLogs(id) :
       events' = save_events(id, [i \in 1..Len(ps) |-> EventNew(ps[i], id, i)])
  /\ UNCHANGED <<config, games, snapshots, delivered, channel, rx_closed, sent, locals>>

\* GameAggregate::default() draws its id with Uuid::new_v4(); CounterState and
\* GameState start from the empty string.
FreshDefault(u) == [Default EXCEPT !.id = u]

\* let mut a = A::default(); a.set_aggregate_id(id)
Construct(t, id) ==
  /\ events # <<>>
  /\ pc[t] = "Idle"
  /\ \E u \in Ids \cup {NoId} :
       aggregate' = [aggregate EXCEPT ![t] = set_aggregate_id(FreshDefault(u), id)]
  /\ target' = [target EXCEPT ![t] = id]
  /\ Goto(t, "Applying")
  /\ UNCHANGED <<config, local_model, shared, command, current_version, new_events,
                 versioned_events, commands_to_dispatch, idx, cidx, err, pre>>

\* a.apply_events(&events)
Replay(t) ==
  /\ pc[t] = "Applying"
  /\ aggregate' = [aggregate EXCEPT ![t] = apply_events(@, StoredLog(target[t]))]
  /\ Goto(t, "Done")
  /\ UNCHANGED <<config, local_model, shared, target, command, current_version, new_events,
                 versioned_events, commands_to_dispatch, idx, cidx, err, pre>>

NextReplay ==
  \/ FillStore
  \/ \E t \in Tasks, id \in SeqIds : Construct(t, id)
  \/ \E t \in Tasks : Replay(t)
  \/ \E t \in Tasks : Return(t)

SpecReplay == InitReplay /\ [][NextReplay]_vars

\* ------------------------------------------- the caller drains the channel
\* The loop that owns the receiver is also the caller of execute: it takes a
\* command off the channel, or drops the receiver, only between two calls.
ReceiveByCaller ==
  /\ \A t \in Tasks : pc[t] = "Idle"
  /\ Receive

CloseReceiverByCaller ==
  /\ \A t \in Tasks : pc[t] = "Idle"
  /\ CloseReceiver

InitSelfDrain ==
  /\ Init
  /\ engine \in CqrsEngines

NextSelfDrain ==
  \/ \E t \in SeqTasks, id \in SeqIds : Start(t, id)
  \/ \E t \in SeqTasks : CqrsLoad(t)
  \/ \E t \in SeqTasks : CqrsCurrentVersion(t)
  \/ \E t \in SeqTasks : CqrsHandle(t)
  \/ \E t \in SeqTasks : CqrsAssignVersions(t)
  \/ \E t \in SeqTasks : CqrsSave(t)
  \/ \E t \in SeqTasks : CqrsApply(t)
  \/ \E t \in SeqTasks : CqrsProcess(t)
  \/ \E t \in SeqTasks : CqrsDispatch(t)
  \/ \E t \in SeqTasks : CqrsStore(t)
  \/ \E t \in SeqTasks : Return(t)
  \/ ReceiveByCaller
  \/ CloseReceiverByCaller

\* Every store, handler and consumer call returns, and the loop keeps running.
SpecSelfDrain == InitSelfDrain /\ [][NextSelfDrain]_vars /\ WF_vars(NextSelfDrain)

\* ------------------------------------------------ the snapshot store alone
\* A caller holding some aggregate saves a snapshot of it.
SnapshotAggregates ==
  {[id |-> i, applied |-> ps] :
     i \in Ids, ps \in UNION {[1..n -> Payloads] : n \in 0..MaxLog}}

\* The version argument: omitted, or given.
SnapshotVersions == {None} \cup {Some(v) : v \in HandlerVersions}

HoldAggregate(t) ==
  /\ pc[t] = "Idle"
  /\ \E a \in SnapshotAggregates :
       /\ aggregate' = [aggregate EXCEPT ![t] = a]
       /\ target' = [target EXCEPT ![t] = a.id]
  /\ pre' = [pre EXCEPT ![t] = SharedState]
  /\ Goto(t, "Snapshotting")
  /\ UNCHANGED <<config, local_model, shared, command, current_version, new_events,
                 versioned_events, commands_to_dispatch, idx, cidx, err>>

\* snapshot_store.save_snapshot(AggregateSnapshot::new(&aggregate, version))
SaveSnapshot(t) ==
  /\ pc[t] = "Snapshotting"
  /\ \E v \in SnapshotVersions :
       /\ snapshots' = save_snapshot(AggregateSnapshotNew(aggregate[t], v))
       /\ command' = [command EXCEPT ![t] = [op |-> "SaveSnapshot", version |-> v]]
  /\ Goto(t, "Done")
  /\ UNCHANGED <<config, local_model, games, events, delivered, channel, rx_closed, sent, target,
                 aggregate, current_version, new_events, versioned_events,
                 commands_to_dispatch, idx, cidx, err, pre>>

InitSnapshotStore ==
  /\ Init
  /\ engine = "CqrsSnapshot"
  /\ ~not_found_is_error

NextSnapshotStore ==
  \/ \E t \in SeqTasks : HoldAggregate(t)
  \/ \E t \in SeqTasks : SaveSnapshot(t)
  \/ \E t \in SeqTasks : Return(t)

SpecSnapshotStore == InitSnapshotStore /\ [][NextSnapshotStore]_vars

\* --------------------------------------------- one caller, two aggregates
\* A single caller runs execute on one aggregate id after another. Its handlers
\* return events of one payload, naming either id; its consumers return no
\* follow-up command.
FrameResults ==
  {evs \in HandlerResults :
     \A i \in 1..Len(evs) : get_payload(evs[i]) = "a" /\ evs[i].version = DefaultVersion}

FrameCqrsHandle(t) ==
  /\ CqrsHandle(t)
  /\ new_events'[t] \in FrameResults

FrameDispatcherHandle(t) ==
  /\ DispatcherHandle(t)
  /\ new_events'[t] \in FrameResults

FrameProcess(t) ==
  /\ CqrsProcess(t)
  /\ commands_to_dispatch'[t] = <<>>

NextFrame ==
  \/ \E t \in SeqTasks, id \in Ids : Start(t, id)
  \/ \E t \in SeqTasks : CqrsLoad(t)
  \/ \E t \in SeqTasks : CqrsCurrentVersion(t)
  \/ \E t \in SeqTasks : FrameCqrsHandle(t)
  \/ \E t \in SeqTasks : CqrsAssignVersions(t)
  \/ \E t \in SeqTasks : CqrsSave(t)
  \/ \E t \in SeqTasks : CqrsApply(t)
  \/ \E t \in SeqTasks : FrameProcess(t)
  \/ \E t \in SeqTasks : CqrsDispatch(t)
  \/ \E t \in SeqTasks : CqrsStore(t)
  \/ \E t \in SeqTasks : DispatcherLoad(t)
  \/ \E t \in SeqTasks : DispatcherSetAggregateId(t)
  \/ \E t \in SeqTasks : FrameDispatcherHandle(t)
  \/ \E t \in SeqTasks : DispatcherSave(t)
  \/ \E t \in SeqTasks : DispatcherApply(t)
  \/ \E t \in SeqTasks : SnapshotDispatcherSnapshot(t)
  \/ \E t \in SeqTasks : DispatcherProcess(t)
  \/ \E t \in SeqTasks : Return(t)

SpecFrame == Init /\ [][NextFrame]_vars

\* ------------------------------------------- two tasks, one read model
\* Two tasks hold a GameEventConsumer each, built over clones of one
\* Arc<Mutex<InMemoryRepository>>, and process the events of one game.
\* GameView::query takes the lock, clones the repository, releases the lock
\* and reads the clone; GameView::update takes the lock again.

\* GetGameQuery::run on the clone: unwrap() panics when the game is missing.
GetGameQueryRun(repo, id) == IF id \in DOMAIN repo THEN Ok(repo[id]) ELSE Err

\* The GameModel process() hands to update, from the model its query returned.
ModelAfter(m, p) ==
  IF p.type = "PlayerAttacked"
  THEN IF m.player_1.id = p.attacker.id
       THEN [m EXCEPT !.player_1.points = @ + 1]
       ELSE [m EXCEPT !.player_2.points = @ + 1]
  ELSE [m EXCEPT !.status = Winner(p.winner)]

\* The events the tasks are handed: the game starts once, before any attack.
ReadModelEvents ==
  IF games = <<>>
  THEN IF \A t \in Tasks : pc[t] = "Idle"
       THEN {GameEventInto(GameStarted(id, Player("player_1", 0), Player("player_2", 0), g)) :
               id \in SeqIds, g \in GameGoals}
       ELSE {}
  ELSE {GameEventInto(PlayerAttacked(id, Player(p, 1))) : id \in SeqIds, p \in Players}

\* process() up to the await of update's lock: GameStarted builds the model,
\* the other events query it (lock, clone, unlock) and change the copy.
GameEventConsumerQuery(t) ==
  /\ pc[t] = "Idle"
  /\ Len(delivered[1]) + Cardinality({u \in Tasks : pc[u] = "Updating"}) < MaxGameLog
  /\ \E e \in ReadModelEvents :
       LET p == get_payload(e)
           r == GetGameQueryRun(games, p.aggregate_id)
       IN  /\ new_events' = [new_events EXCEPT ![t] = <<e>>]
           /\ IF p.type = "GameStarted"
              THEN /\ local_model' = [local_model EXCEPT ![t] =
                                  [id |-> p.aggregate_id, player_1 |-> p.player_1,
                                   player_2 |-> p.player_2, goal |-> p.goal,
                                   status |-> Playing]]
                   /\ pc' = [pc EXCEPT ![t] = "Updating"]
                   /\ UNCHANGED err
              ELSE IF r.ok
              THEN /\ local_model' = [local_model EXCEPT ![t] = ModelAfter(r.value, p)]
                   /\ pc' = [pc EXCEPT ![t] = "Updating"]
                   /\ UNCHANGED err
              ELSE /\ Fail(t, "ConsumerPanic")
                   /\ UNCHANGED local_model
  /\ UNCHANGED <<config, shared, target, command, aggregate, current_version,
                 versioned_events, commands_to_dispatch, idx, cidx, pre>>

\* GameView::update: lock, update_game, unlock; process() returns.
GameEventConsumerUpdate(t) ==
  /\ pc[t] = "Updating"
  /\ games' = update_game(games, local_model[t])
  /\ delivered' = [delivered EXCEPT ![1] = Append(@, new_events[t][1])]
  /\ pc' = [pc EXCEPT ![t] = "Idle"]
  /\ local_model' = [local_model EXCEPT ![t] = NoModel]
  /\ new_events' = [new_events EXCEPT ![t] = <<>>]
  /\ UNCHANGED <<config, events, snapshots, channel, rx_closed, sent, target, command,
                 aggregate, current_version, versioned_events, commands_to_dispatch,
                 idx, cidx, err, pre>>

InitReadModel ==
  /\ Init
  /\ engine = "SimpleDispatcher"

NextReadModel ==
  \/ \E t \in Tasks : GameEventConsumerQuery(t)
  \/ \E t \in Tasks : GameEventConsumerUpdate(t)

SpecReadModel == InitReadModel /\ [][NextReadModel]_vars

\* ============================================================ properties
PreLog(t) ==
  IF target[t] \in DOMAIN pre[t].events THEN pre[t].events[target[t]] ELSE <<>>

\* The events the running execute added to its aggregate's log.
NewlyPersisted(t) ==
  SubSeq(StoredLog(target[t]), Len(PreLog(t)) + 1, Len(StoredLog(target[t])))

IsPrefix(s, r) == Len(s) <= Len(r) /\ SubSeq(r, 1, Len(s)) = s

VersionsGapless(log) == \A i \in 1..Len(log) : log[i].version = i

NoSideEffects(t) ==
  /\ events = pre[t].events
  /\ snapshots = pre[t].snapshots
  /\ \A c \in Consumers : delivered[c] = <<>>
  /\ sent = <<>>

HasMismatch(evs, id) == \E i \in 1..Len(evs) : evs[i].aggregate_id # id

\* C1: under Cqrs::execute the stored versions of every aggregate are exactly
\* 1..N whatever versions the handler put on its events, and a completed
\* execute has extended the log by the number of events the handler returned.
C1_VersionMonotonicity ==
  engine \in CqrsEngines =>
    /\ \A id \in DOMAIN events : VersionsGapless(events[id])
    /\ \A t \in Tasks : pc[t] = "Done" =>
         /\ StoredLog(target[t]) = PreLog(t) \o versioned_events[t]
         /\ Len(versioned_events[t]) = Len(new_events[t])

C1_Witness ==
  \E t \in Tasks :
    /\ engine \in CqrsEngines
    /\ pc[t] = "Done"
    /\ PreLog(t) # <<>>
    /\ versioned_events[t] # <<>>
    /\ new_events[t][1].version # versioned_events[t][1].version

\* C2: a command the handler rejects (Cqrs::execute, SimpleDispatcher) leaves
\* the event store and the snapshot store as they were when execute was
\* called, reaches no consumer and sends no follow-up command.
C2_RejectionNoSideEffects ==
  \A t \in Tasks :
    (engine # "SnapshotDispatcher" /\ pc[t] = "Failed" /\ err[t] = "CommandRejected")
      => NoSideEffects(t)

C2_Witness ==
  \E t \in Tasks :
    /\ engine = "SimpleDispatcher"
    /\ pc[t] = "Failed"
    /\ err[t] = "CommandRejected"
    /\ PreLog(t) # <<>>

\* C3: when the handler returns an event of another aggregate, at any position,
\* Cqrs::execute fails with CommandValidation and none of the command's events
\* is persisted, no consumer runs, nothing is sent and no snapshot is stored.
C3_AggregateIdMismatch ==
  \A t \in Tasks :
    (/\ engine \in CqrsEngines
     /\ pc[t] \notin {"Idle", "Loading", "CurrentVersion", "Handling", "Versioning"}
     /\ HasMismatch(new_events[t], target[t]))
      => /\ pc[t] = "Failed"
         /\ err[t] = "CommandValidation"
         /\ NoSideEffects(t)

C3_Witness ==
  \E t \in Tasks :
    /\ engine \in CqrsEngines
    /\ pc[t] = "Failed"
    /\ err[t] = "CommandValidation"
    /\ Len(new_events[t]) = 2
    /\ new_events[t][1].aggregate_id = target[t]
    /\ new_events[t][2].aggregate_id # target[t]

\* C4: when save_events fails, execute has changed neither store, reached no
\* consumer and sent nothing; and versioning the same events against the store
\* as the failed call left it gives the versions the failed call had computed.
C4_SaveFailure ==
  \A t \in Tasks :
    (pc[t] = "Failed" /\ err[t] = "StoreOperationSave") =>
      /\ NoSideEffects(t)
      /\ engine \in CqrsEngines =>
           LET r == load_events(target[t])
           IN  /\ r.ok
               /\ AssignVersions(new_events[t], target[t], LastVersion(r.value))
                    = Ok(versioned_events[t])

C4_Witness ==
  \E t \in Tasks :
    /\ engine \in CqrsEngines
    /\ pc[t] = "Failed"
    /\ err[t] = "StoreOperationSave"
    /\ PreLog(t) # <<>>

\* C5: with SimpleAggregateManager, when load_events reports "not found" for
\* the aggregate of a first command, Cqrs::execute does not fail at the load.
C5_NotFoundIsEmptyHistory ==
  \A t \in Tasks :
    (/\ engine = "CqrsSimple"
     /\ not_found_is_error
     /\ pc[t] # "Idle"
     /\ target[t] \notin DOMAIN pre[t].events)
      => ~(pc[t] = "Failed" /\ err[t] \in {"AggregateLoad", "StoreOperationLoad"})

\* C6: every consumer is handed the newly persisted events in append order,
\* each at most once while execute runs and each exactly once when it succeeds.
C6_ConsumerFanOut ==
  \A t \in Tasks : pc[t] # "Idle" =>
    \A c \in Consumers :
      /\ IsPrefix(delivered[c], NewlyPersisted(t))
      /\ pc[t] = "Done" => delivered[c] = NewlyPersisted(t)

C6_Witness ==
  \E t \in Tasks :
    /\ engine \in CqrsEngines
    /\ pc[t] = "Done"
    /\ Len(NewlyPersisted(t)) = 2
    /\ get_payload(NewlyPersisted(t)[1]) # get_payload(NewlyPersisted(t)[2])
    /\ \A c \in Consumers : delivered[c] = NewlyPersisted(t)

\* The order of the steps of one execute, and what each step alone may change.
ClaimedOrder ==
  <<"Idle", "Loading", "CurrentVersion", "Handling", "Versioning", "Persisting",
    "Applying", "Notifying", "Dispatching", "Snapshotting", "Done", "Idle">>

ClaimedStep(p, q) ==
  \/ p = q
  \/ p # "Idle" /\ q = "Failed"
  \/ p = "Failed" /\ q = "Idle"
  \/ p = "Versioning" /\ q = "Done"
  \/ \E i \in 1..(Len(ClaimedOrder) - 1) : p = ClaimedOrder[i] /\ q = ClaimedOrder[i + 1]

ClaimedEffects(t) ==
  /\ events' # events =>
       /\ pc[t] = "Persisting"
       /\ events' = save_events(target[t], versioned_events[t])
  /\ (\E c \in Consumers : Len(delivered'[c]) > Len(delivered[c])) =>
       /\ pc[t] = "Notifying"
       /\ versioned_events[t] # <<>>
       /\ NewlyPersisted(t) = versioned_events[t]
  /\ Len(sent') > Len(sent) =>
       /\ pc[t] = "Dispatching"
       /\ \A c \in Consumers : delivered[c] = versioned_events[t]
  /\ snapshots' # snapshots =>
       /\ pc[t] = "Snapshotting"
       /\ \A c \in Consumers : delivered[c] = versioned_events[t]
       /\ commands_to_dispatch[t] = <<>>

ClaimedExecuteStep ==
  engine \in CqrsEngines =>
    \A t \in Tasks :
      /\ ClaimedStep(pc[t], pc'[t])
      /\ pc[t] # "Idle" => ClaimedEffects(t)

\* C7: Cqrs::execute moves through load, current version, handle, version and
\* validate, save, apply, consumers, follow-up commands, store; no consumer is
\* handed an event before save_events succeeded, nothing is sent before every
\* consumer saw every event, and the snapshot is stored after all of that.
C7_StepOrdering == [][ClaimedExecuteStep]_vars

C7_Witness ==
  \E t \in Tasks :
    /\ engine = "CqrsSnapshot"
    /\ pc[t] = "Done"
    /\ snapshots # pre[t].snapshots
    /\ sent # <<>>
    /\ \A c \in Consumers : Len(delivered[c]) = 2

\* C8: SnapshotDispatcher::execute has handed the persisted events to every
\* consumer by the time a save_snapshot can fail.
C8_ConsumersBeforeSnapshot ==
  \A t \in Tasks :
    (engine = "SnapshotDispatcher" /\ pc[t] = "Failed" /\ err[t] = "Snapshot")
      => \A c \in Consumers : delivered[c] = NewlyPersisted(t)

\* C9: a failure after save_events succeeded (a consumer's error, a failed
\* send, a failed snapshot store) leaves the saved events in the log, after
\* the events that were there before.
C9_NoRollback ==
  \A t \in Tasks :
    (pc[t] = "Failed" /\ err[t] \in {"Consumer", "CommandDispatch", "Snapshot"}) =>
      StoredLog(target[t]) =
           PreLog(t) \o (IF engine \in CqrsEngines THEN versioned_events[t]
                         ELSE new_events[t])

C9_Witness ==
  \E t \in Tasks :
    /\ engine = "CqrsSnapshot"
    /\ pc[t] = "Failed"
    /\ err[t] = "Snapshot"
    /\ sent # <<>>
    /\ PreLog(t) # <<>>
    /\ NewlyPersisted(t) # <<>>

\* C10: between Cqrs::execute calls with SnapshotAggregateManager, loading an
\* aggregate from its snapshot gives what replaying its events gives.
C10_SnapshotReplayEquivalence ==
  (engine = "CqrsSnapshot" /\ \A t \in Tasks : pc[t] = "Idle") =>
    \A id \in Ids :
      SimpleAggregateManagerLoad(id).ok =>
        SnapshotAggregateManagerLoad(id).value = SimpleAggregateManagerLoad(id).value

\* The events execute handed to save_events.
Saved(t) == IF engine \in CqrsEngines THEN versioned_events[t] ELSE new_events[t]

\* C11: the snapshot an execute stored carries the version of the last event
\* that was applied to produce the snapshotted state.
C11_SnapshotVersion ==
  \A t \in Tasks :
    (/\ engine \in {"CqrsSnapshot", "SnapshotDispatcher"}
     /\ pc[t] = "Done"
     /\ Saved(t) # <<>>)
      => /\ target[t] \in DOMAIN snapshots
         /\ snapshots[target[t]].version = LastVersion(Saved(t))

\* C12: when load_snapshot fails for the requested id, the load gives the
\* default aggregate with the identity set, execute goes on to the handler and
\* never returns the snapshot store's error.
C12_SnapshotLoadNotFatal ==
  \A t \in Tasks :
    (/\ engine \in {"CqrsSnapshot", "SnapshotDispatcher"}
     /\ pc[t] \notin {"Idle", "Loading", "Identifying"}
     /\ target[t] \notin DOMAIN pre[t].snapshots)
      => /\ ~(pc[t] = "Failed" /\ err[t] = "AggregateLoad")
         /\ pc[t] \in {"CurrentVersion", "Handling"} =>
              aggregate[t] = set_aggregate_id(Default, target[t])

C12_Witness ==
  \E t \in Tasks :
    /\ engine = "CqrsSnapshot"
    /\ target[t] \notin DOMAIN pre[t].snapshots
    /\ pc[t] = "Done"
    /\ NewlyPersisted(t) # <<>>
    /\ aggregate[t].id = target[t]

\* C13: in SimpleDispatcher and SnapshotDispatcher, once save_events succeeded
\* execute never fails, and it returns after every consumer was handed every
\* event, whatever a consumer's process call does.
C13_ConsumerIsolation ==
  \A t \in Tasks :
    engine \notin CqrsEngines =>
      /\ ~(pc[t] = "Failed" /\ err[t] \in {"Snapshot", "ConsumerPanic"})
      /\ pc[t] = "Done" => \A c \in Consumers : delivered[c] = new_events[t]

\* C14: the logs written by SimpleDispatcher and SnapshotDispatcher have the
\* versions 1, 2, 3, ... in order.
C14_DispatcherVersionsGapless ==
  engine \notin CqrsEngines =>
    \A id \in DOMAIN events : VersionsGapless(events[id])

\* A step that keeps every stored log as a prefix of itself.
AppendOnlyStep ==
  \A id \in DOMAIN events :
    /\ id \in DOMAIN events'
    /\ IsPrefix(events[id], events'[id])

\* C15: every step leaves each aggregate's stored events as a prefix of what
\* is stored afterwards: a log only grows at its end.
C15_AppendOnly == [][AppendOnlyStep]_vars

C15_Witness ==
  \E t \in Tasks :
    /\ engine = "SimpleDispatcher"
    /\ pc[t] = "Done"
    /\ PreLog(t) # <<>>
    /\ NewlyPersisted(t) # <<>>
    /\ PreLog(t)[1] # NewlyPersisted(t)[1]

\* C16: every event SimpleDispatcher stored under an aggregate id carries that
\* id in its aggregate_id field.
C16_DispatcherIdentity ==
  engine = "SimpleDispatcher" =>
    \A id \in DOMAIN events :
      \A i \in 1..Len(events[id]) : events[id][i].aggregate_id = id

HasDuplicateVersions(log) ==
  \E i, j \in 1..Len(log) : i # j /\ log[i].version = log[j].version

SaveSucceeded(t) ==
  pc[t] \in {"Applying", "Notifying", "Dispatching", "Snapshotting", "Done"}

\* C17: when two Cqrs::execute calls for one aggregate id both read the
\* current version before either saves, both saves succeed, no error is
\* raised for the conflict and the log holds duplicated version numbers.
C17_SameAggregateRace ==
  \A t1, t2 \in Tasks :
    (/\ t1 # t2
     /\ target[t1] = target[t2]
     /\ SaveSucceeded(t1) /\ SaveSucceeded(t2)
     /\ versioned_events[t1] # <<>> /\ versioned_events[t2] # <<>>
     /\ current_version[t1] = current_version[t2])
      => /\ HasDuplicateVersions(StoredLog(target[t1]))
         /\ Len(StoredLog(target[t1])) >=
              Len(versioned_events[t1]) + Len(versioned_events[t2])

C17_Witness ==
  /\ pc[1] = "Done" /\ pc[2] = "Done"
  /\ target[1] = target[2]
  /\ versioned_events[1] # <<>> /\ versioned_events[2] # <<>>
  /\ current_version[1] = current_version[2]
  /\ HasDuplicateVersions(StoredLog(target[1]))

PayloadsOf(log) == [i \in 1..Len(log) |-> get_payload(log[i])]

\* The count of the aggregate SimpleDispatcher loaded when execute was called.
CountBefore(t) == CounterFold(0, PayloadsOf(PreLog(t)))

Increment(n) == [op |-> "Increment", amount |-> n]
Decrement(n) == [op |-> "Decrement", amount |-> n]

Rejected(t) == pc[t] = "Failed" /\ err[t] = "CommandRejected"

\* C18: on a fresh store Increment(10) gives count 10 and one stored event of
\* version 1; Decrement(3) then gives count 7 and a second stored event of
\* version 2; Decrement(10) is then rejected, leaving the count at 7 and two
\* events stored; a Decrement(n) is accepted exactly when n <= the count.
C18_CounterEndToEnd ==
  \A t \in Tasks :
    /\ (pc[t] = "Done" /\ PreLog(t) = <<>> /\ command[t] = Increment(10)) =>
         /\ CounterCount(aggregate[t]) = 10
         /\ Len(StoredLog(target[t])) = 1
         /\ StoredLog(target[t])[1].version = 1
    /\ (pc[t] = "Done" /\ PayloadsOf(PreLog(t)) = <<Incremented(10)>>
          /\ command[t] = Decrement(3)) =>
         /\ CounterCount(aggregate[t]) = 7
         /\ Len(StoredLog(target[t])) = 2
         /\ StoredLog(target[t])[2].version = 2
    /\ (pc[t] \in {"Done", "Failed"} /\ command[t] = Decrement(10)
          /\ PayloadsOf(PreLog(t)) = <<Incremented(10), Decremented(3)>>) =>
         /\ Rejected(t)
         /\ StoredLog(target[t]) = PreLog(t)
         /\ CounterCount(SimpleDispatcherLoadAggregate(target[t])) = 7
    /\ (pc[t] \in {"Persisting", "Applying", "Notifying", "Done", "Failed"}
          /\ command[t].op = "Decrement") =>
         (Rejected(t) <=> command[t].amount > CountBefore(t))

\* The game the stored events gave when execute was called.
GameBefore(t) == GameFold(GameDefault, PayloadsOf(PreLog(t)))

AttackPlayer(p) == [op |-> "AttackPlayer", attacker |-> Player(p, 0)]

Scorer(g, p) == IF g.player_1.id = p THEN g.player_1 ELSE g.player_2

\* The command of the running execute has been handled and was an attack by p.
Attacked(t, p) == command[t] = AttackPlayer(p) /\ ~Rejected(t)

AttackAddsOnePoint(t) ==
  (pc[t] = "Done" /\ Attacked(t, "player_1") /\ GameBefore(t).goal = 3) =>
    /\ GameStateOf(aggregate[t]).player_1.points = GameBefore(t).player_1.points + 1
    /\ GameStateOf(aggregate[t]).player_2 = GameBefore(t).player_2

GoalEndsGameInSameExecute(t) ==
  \A p \in Players :
    Attacked(t, p) =>
      LET scorer == [Scorer(GameBefore(t), p) EXCEPT !.points = @ + 1]
      IN  PayloadsOf(new_events[t]) =
            IF scorer.points >= GameBefore(t).goal
            THEN <<PlayerAttacked(target[t], scorer),
                   GameEndedWithWinner(target[t], scorer)>>
            ELSE <<PlayerAttacked(target[t], scorer)>>

RejectedOnceEnded(t) ==
  (command[t] # NoCommand /\ GameBefore(t).goal = 3 /\ GameBefore(t).status # Playing) =>
    /\ Rejected(t)
    /\ new_events[t] = <<>>
    /\ StoredLog(target[t]) = PreLog(t)

\* C19: with goal 3 every attack by player_1 adds exactly one point to
\* player_1; the attack that brings the attacker to the goal emits
\* PlayerAttacked followed by GameEndedWithWinner in the same execute; and once
\* the game has a winner every command, under GameState::handle and under
\* CmdStartGame / CmdAttackPlayer alike, is rejected with no event produced.
C19_GameEndToEnd ==
  \A t \in Tasks :
    /\ AttackAddsOnePoint(t)
    /\ GoalEndsGameInSameExecute(t)
    /\ RejectedOnceEnded(t)

\* The aggregate state that replaying the stored events of id gives.
Replayed(id) == GameFold(GameDefault, PayloadsOf(StoredLog(id)))

\* C20: after every successful execute of a dispatcher on a game aggregate the
\* GameModel the consumer keeps for it has the player_1 points, player_2
\* points, goal and status of the aggregate replayed from its stored events.
C20_ReadModelAgreement ==
  \A t \in Tasks :
    (engine \notin CqrsEngines /\ pc[t] = "Done") =>
      /\ target[t] \in DOMAIN games
      /\ games[target[t]].player_1.points = Replayed(target[t]).player_1.points
      /\ games[target[t]].player_2.points = Replayed(target[t]).player_2.points
      /\ games[target[t]].goal = Replayed(target[t]).goal
      /\ games[target[t]].status = Replayed(target[t]).status

C20_Witness ==
  \E t \in Tasks :
    /\ engine = "SnapshotDispatcher"
    /\ pc[t] = "Done"
    /\ target[t] \in DOMAIN games
    /\ games[target[t]].goal = 3
    /\ games[target[t]].player_2.points = 1
    /\ games[target[t]].status = Winner(Player("player_1", 3))

IsCounterLog(ps) == \A i \in 1..Len(ps) : ps[i] \in CounterPayloads

\* What the replay left in an instance, read as a CounterState or a GameState.
ReplayedState(a) ==
  IF IsCounterLog(a.applied)
  THEN [id |-> a.id, count |-> CounterCount(a), panics |-> CounterPanics(0, a.applied)]
  ELSE [id |-> a.id, game |-> GameStateOf(a)]

C22_ReturnedAggregate ==
  \A t \in Tasks :
    (engine = "SimpleDispatcher" /\ pc[t] = "Done") =>
      /\ StoredLog(target[t]) = PreLog(t) \o new_events[t]
      /\ aggregate[t] =
           apply_events(set_aggregate_id(Default, target[t]), StoredLog(target[t]))

C22_Witness ==
  \E t \in Tasks :
    /\ engine = "SimpleDispatcher"
    /\ pc[t] = "Done"
    /\ PreLog(t) # <<>>
    /\ new_events[t] # <<>>
    /\ Len(aggregate[t].applied) = Len(PreLog(t)) + Len(new_events[t])

\* The steps of the running pipeline that call set_aggregate_id.
IdentifyingSteps == {i \in 1..Len(Pipeline) : Pipeline[i] = "Identifying"}

\* C24: in SimpleDispatcher and SnapshotDispatcher the freshly defaulted
\* aggregate gets its identity before any stored event is applied to it, and
\* set_aggregate_id is called exactly once per execute.
C24_IdentityBeforeEvents ==
  \A t \in Tasks :
    (engine \notin CqrsEngines /\ pc[t] # "Idle") =>
      /\ Cardinality(IdentifyingSteps) = 1
      /\ aggregate[t].applied # <<>> => aggregate[t].id = target[t]

\* A step in which task t returns from SimpleAggregateManager::load.
SimpleLoadStep(t) ==
  engine = "CqrsSimple" /\ pc[t] = "Loading" /\ pc'[t] # "Loading"

\* A step in which task t returns from SimpleAggregateManager::store.
SimpleStoreStep(t) ==
  engine = "CqrsSimple" /\ pc[t] = "Snapshotting" /\ pc'[t] # "Snapshotting"

ReplayOnlyStep ==
  \A t \in Tasks :
    /\ SimpleLoadStep(t) =>
         /\ events' = events
         /\ snapshots' = snapshots
         /\ pc'[t] = "Failed" <=> ~load_events(target[t]).ok
         /\ pc'[t] # "Failed" =>
              aggregate'[t] =
                apply_events(set_aggregate_id(Default, target[t]), StoredLog(target[t]))
    /\ SimpleStoreStep(t) =>
         /\ events' = events
         /\ snapshots' = snapshots
         /\ pc'[t] = "Done"

C25_ExecuteTerminates ==
  \A t \in Tasks : (pc[t] # "Idle") ~> (pc[t] \in {"Done", "Failed"})

\* The commands collected when the consumers returned ks[i] commands for the
\* i-th of the first n events.
RECURSIVE CollectedFor(_, _, _)
CollectedFor(evs, ks, n) ==
  IF n = 0 THEN <<>>
  ELSE CollectedFor(evs, ks, n - 1) \o ConsumerCommands(evs[n], ks[n])

\* cmds is what the consumers returned for the first n events, in event order.
InCollectionOrder(cmds, evs, n) ==
  \E ks \in [1..n -> 0..MaxCmds] : cmds = CollectedFor(evs, ks, n)

\* Every command collected by the running execute: sent already, or waiting.
Collected(t) == sent \o commands_to_dispatch[t]

\* C26: Cqrs::execute collects the commands its consumers return over all new
\* events in event order, sends none before every event has been processed,
\* and then sends them in collection order, each exactly once.
C26_FollowUpCommands ==
  \A t \in Tasks :
    engine \in CqrsEngines =>
      /\ pc[t] \in {"Loading", "CurrentVersion", "Handling", "Versioning",
                    "Persisting", "Applying", "Notifying"} => sent = <<>>
      /\ pc[t] \in {"Dispatching", "Snapshotting", "Done"} =>
           InCollectionOrder(Collected(t), versioned_events[t], Len(versioned_events[t]))
      /\ pc[t] \in {"Snapshotting", "Done"} => commands_to_dispatch[t] = <<>>
      /\ \A i, j \in 1..Len(sent) : i # j => sent[i] # sent[j]

C26_Witness ==
  \E t \in Tasks :
    /\ engine \in CqrsEngines
    /\ pc[t] = "Done"
    /\ Len(sent) >= 2
    /\ sent[1].version < sent[2].version

\* C27: the snapshot store holds at most one snapshot per aggregate id;
\* load_snapshot(id) gives the state saved last for that id, or fails when none
\* was saved; and a save for one id leaves the snapshots of the other ids alone.
C27_LatestSnapshotOnly ==
  /\ \A id \in Ids : load_snapshot(id).ok <=> id \in DOMAIN snapshots
  /\ \A id \in DOMAIN snapshots : snapshots[id].aggregate_id = id
  /\ \A t \in Tasks :
       pc[t] = "Done" =>
         /\ load_snapshot(target[t]).ok
         /\ snapshot_get_payload(load_snapshot(target[t]).value) = aggregate[t]
         /\ DOMAIN snapshots = DOMAIN pre[t].snapshots \cup {target[t]}
         /\ \A id \in DOMAIN snapshots \ {target[t]} :
              snapshots[id] = pre[t].snapshots[id]

C27_Witness ==
  \E t \in Tasks :
    /\ pc[t] = "Done"
    /\ target[t] \in DOMAIN pre[t].snapshots
    /\ pre[t].snapshots[target[t]] # snapshots[target[t]]
    /\ \E id \in DOMAIN snapshots : id # target[t]

\* The events the running execute saved are still the end of the log.
EventsPersisted(t) ==
  /\ versioned_events[t] # <<>>
  /\ StoredLog(target[t]) = PreLog(t) \o versioned_events[t]

\* C28: when consumers.process fails for the k-th new event, execute returns
\* that error at once: the events after the k-th reach no consumer, none of the
\* commands collected so far is sent and aggregate_manager.store is not called,
\* while all events of the command stay persisted.
C28_ConsumerError ==
  \A t \in Tasks :
    (engine \in CqrsEngines /\ pc[t] = "Failed" /\ err[t] = "Consumer") =>
      /\ \A c \in Consumers :
           /\ Len(delivered[c]) <= idx[t]
           /\ IsPrefix(delivered[c], versioned_events[t])
      /\ Len(delivered[1]) = idx[t]
      /\ sent = <<>>
      /\ snapshots = pre[t].snapshots
      /\ EventsPersisted(t)

C28_Witness ==
  \E t \in Tasks :
    /\ engine = "CqrsSnapshot"
    /\ pc[t] = "Failed"
    /\ err[t] = "Consumer"
    /\ idx[t] = 1
    /\ Len(versioned_events[t]) = 2
    /\ commands_to_dispatch[t] = <<>>

\* C29: when a send to the command channel fails because the receiver is
\* closed, execute returns CommandDispatch: the commands before the failing
\* one have been sent, the failing one and those after it have not, the
\* snapshot is not stored and the events stay persisted.
C29_DispatchFailure ==
  \A t \in Tasks :
    (engine \in CqrsEngines /\ pc[t] = "Failed" /\ err[t] = "CommandDispatch") =>
      /\ rx_closed
      /\ commands_to_dispatch[t] # <<>>
      /\ InCollectionOrder(Collected(t), versioned_events[t], Len(versioned_events[t]))
      /\ \A i \in 1..Len(sent) : \A j \in 1..Len(commands_to_dispatch[t]) :
           sent[i] # commands_to_dispatch[t][j]
      /\ snapshots = pre[t].snapshots
      /\ EventsPersisted(t)

C29_Witness ==
  \E t \in Tasks :
    /\ engine = "CqrsSnapshot"
    /\ pc[t] = "Failed"
    /\ err[t] = "CommandDispatch"
    /\ sent # <<>>
    /\ commands_to_dispatch[t] # <<>>

\* The handler of the running execute has returned Ok with no event.
HandledEmpty(t) ==
  /\ pc[t] \notin {"Idle", "Loading", "CurrentVersion", "Handling", "Failed"}
  /\ new_events[t] = <<>>

\* C30: when the handler succeeds with zero events Cqrs::execute returns Ok
\* without saving, without invoking a consumer, without sending a command and
\* without storing a snapshot: both stores are unchanged and, no consumer
\* having run, so are the read models.
C30_EmptyResultNoOp ==
  \A t \in Tasks :
    (engine \in CqrsEngines /\ HandledEmpty(t)) =>
      /\ pc[t] \in {"Versioning", "Done"}
      /\ NoSideEffects(t)

C30_Witness ==
  \E t \in Tasks :
    /\ engine = "CqrsSnapshot"
    /\ pc[t] = "Done"
    /\ new_events[t] = <<>>
    /\ PreLog(t) # <<>>

\* What a store holds for id, or the empty sequence when it holds nothing.
Held(store, id) == IF id \in DOMAIN store THEN <<store[id]>> ELSE <<>>

\* C31: an execute call for one aggregate id, whether it succeeds or fails,
\* leaves the stored events and the stored snapshot of every other id as they
\* were when it was called.
C31_CrossAggregateFrame ==
  \A t \in Tasks :
    pc[t] # "Idle" =>
      \A other \in Ids \ {target[t]} :
        /\ Held(events, other) = Held(pre[t].events, other)
        /\ Held(snapshots, other) = Held(pre[t].snapshots, other)

C31_Witness ==
  \E t \in Tasks : \E other \in Ids \ {target[t]} :
    /\ engine = "SnapshotDispatcher"
    /\ pc[t] = "Done"
    /\ NewlyPersisted(t) # <<>>
    /\ NewlyPersisted(t)[1].aggregate_id = other
    /\ StoredLog(other) # <<>>
    /\ other \in DOMAIN snapshots
    /\ snapshots # pre[t].snapshots

\* C32: when two Cqrs::execute calls work on two different aggregate ids and
\* share one event store, then under every interleaving of their steps the
\* stored log of each aggregate carries exactly the versions 1..n, in order.
C32_VersionsPerAggregate ==
  \A id \in Ids : VersionsGapless(StoredLog(id))

C32_Witness ==
  /\ pc[1] = "Done" /\ pc[2] = "Done"
  /\ target[1] # target[2]
  /\ pre[1].events = <<>> /\ pre[2].events = <<>>
  /\ current_version[1] = 0 /\ current_version[2] = 0
  /\ Len(StoredLog(target[1])) = Len(versioned_events[1])
  /\ Len(StoredLog(target[2])) = Len(versioned_events[2])
  /\ Len(versioned_events[1]) > 1 /\ Len(versioned_events[2]) > 0

\* The PlayerAttacked events of game id, among those a consumer has finished
\* processing, whose attacker is player pid.
AttacksProcessed(id, pid) ==
  Cardinality({i \in 1..Len(delivered[1]) :
                 LET p == get_payload(delivered[1][i])
                 IN  /\ p.type = "PlayerAttacked"
                     /\ p.aggregate_id = id
                     /\ p.attacker.id = pid})

\* C33: when two tasks process PlayerAttacked events of one game through
\* consumers sharing one repository, then once both have returned the points
\* the GameModel records for each player equal the number of PlayerAttacked
\* events processed for that player (no update is lost).
C33_NoLostUpdate ==
  (\A t \in Tasks : pc[t] = "Idle") =>
    \A id \in DOMAIN games :
      /\ games[id].player_1.points = AttacksProcessed(id, games[id].player_1.id)
      /\ games[id].player_2.points = AttacksProcessed(id, games[id].player_2.id)

\* C34: for every sequence of Increment/Decrement commands executed through
\* SimpleDispatcher on one counter, no apply of an event, on the command path
\* or on replay, takes the u32 count out of its range, so that the count is
\* the sum of the accepted increments minus the sum of the accepted decrements.
C34_CounterInRange ==
  \A t \in Tasks :
    /\ err[t] # "OverflowPanic"
    /\ ~CounterPanics(0, aggregate[t].applied)

\* The positions of the GameEndedWithWinner events of a log of payloads.
EndedAt(ps) == {i \in 1..Len(ps) : ps[i].type = "GameEndedWithWinner"}

\* Some player of the game replayed from ps has as many points as the goal a
\* GameStarted event has set.
GoalReached(ps) ==
  LET g == GameFold(GameDefault, ps)
  IN  /\ \E i \in 1..Len(ps) : ps[i].type = "GameStarted"
      /\ \/ g.player_1.points >= g.goal
         \/ g.player_2.points >= g.goal

\* C35: for every sequence of StartGame/AttackPlayer commands on one game
\* aggregate the stored log holds at most one GameEndedWithWinner event, that
\* event is the last of the log, and it is there exactly when some player's
\* points have reached the goal of the started game; an AttackPlayer executed
\* before any StartGame, with the goal still 0, does not end the game.
C35_GameLogWellFormed ==
  \A id \in SeqIds :
    LET ps == PayloadsOf(StoredLog(id))
    IN  /\ Cardinality(EndedAt(ps)) <= 1
        /\ \A i \in EndedAt(ps) : i = Len(ps)
        /\ (EndedAt(ps) # {}) <=> GoalReached(ps)

====
